---------------------------- MODULE Spec2Model ----------------------------
(***************************************************************************)
(* ldap2pg: role reconciliation (internal/roles), database sync order      *)
(* (internal/postgres) and YAML normalisation (internal/config).           *)
(*                                                                         *)
(* Go strings are TLA+ strings; strings.Split, HasPrefix and TrimPrefix    *)
(* are computed character by character.  A dynamically typed YAML value    *)
(* (interface{}) is a pair <<tag, payload>>.                               *)
(***************************************************************************)
EXTENDS Integers, Sequences, FiniteSets, TLC

VARIABLES
    op,         \* which Role method the producer goroutine runs
    role,       \* receiver r of the method (current role, or role to create)
    wanted,     \* argument of Alter
    databases,  \* argument of Drop
    pc,         \* position of the producer inside the method
    idx,        \* loop index of "for _, database := range databases"
    capacity,   \* buffer size of ch (0: unbuffered)
    ch,         \* buffered elements of the channel
    sent,       \* every value the producer has sent on ch, in order
    received,   \* every value the consumer has received from ch, in order
    draining,   \* the consumer is still receiving from ch
    input,      \* argument of the pure function under test
    call,       \* name of the function applied to input ("" before the call)
    output      \* what the call returned

recVars == <<op, role, wanted, databases, pc, idx, capacity, ch, sent, received, draining>>
funVars == <<input, call, output>>
vars == <<op, role, wanted, databases, pc, idx, capacity, ch, sent, received, draining,
          input, call, output>>

(***************************************************************************)
(* Bounds of the model.                                                    *)
(***************************************************************************)
MaxDatabases == 2   \* longest list of databases handed to Drop
MaxCapacity == 1    \* largest channel buffer
MaxNames == 3       \* longest names list of a role rule
MaxItems == 2       \* longest sync_map of a policy document

(***************************************************************************)
(* Generic helpers.                                                        *)
(***************************************************************************)
SeqsUpTo(S, n) == UNION {[1..k -> S] : k \in 0..n}

Range(seq) == {seq[i] : i \in 1..Len(seq)}

IsPrefix(s, t) == Len(s) <= Len(t) /\ SubSeq(t, 1, Len(s)) = s

Digits == <<"0", "1", "2", "3", "4", "5", "6", "7", "8", "9">>

RECURSIVE NatToString(_)
NatToString(n) ==
    IF n < 10 THEN Digits[n + 1]
    ELSE NatToString(n \div 10) \o Digits[(n % 10) + 1]

\* fmt's %d
Itoa(n) == IF n < 0 THEN "-" \o NatToString(0 - n) ELSE NatToString(n)

(***************************************************************************)
(* config.RoleOptions and roles.Role.                                      *)
(***************************************************************************)
BoolFields == {"Super", "Inherit", "CreateRole", "CreateDB", "CanLogin",
               "Replication", "ByPassRLS"}
OptionFields == BoolFields \cup {"ConnLimit"}

\* SQL token of each boolean field, in the order of the canonical keys.
BoolTokens == <<[f |-> "Super", tok |-> "SUPERUSER"],
                [f |-> "Inherit", tok |-> "INHERIT"],
                [f |-> "CreateRole", tok |-> "CREATEROLE"],
                [f |-> "CreateDB", tok |-> "CREATEDB"],
                [f |-> "CanLogin", tok |-> "LOGIN"],
                [f |-> "Replication", tok |-> "REPLICATION"],
                [f |-> "ByPassRLS", tok |-> "BYPASSRLS"]>>

RECURSIVE BoolTokensString(_, _)
BoolTokensString(o, i) ==
    IF i > Len(BoolTokens) THEN ""
    ELSE (IF o[BoolTokens[i].f] THEN "" ELSE "NO") \o BoolTokens[i].tok \o " "
         \o BoolTokensString(o, i + 1)

\* RoleOptions.String(): the SQL-token encoding of the options.
OptionsString(o) == BoolTokensString(o, 1) \o "CONNECTION LIMIT " \o Itoa(o.ConnLimit)

\* pgx.Identifier{name}.Sanitize() for a name without quote or NUL.
Sanitize(name) == "\"" \o name \o "\""

MkOptions(super, inherit, login, limit) ==
    [Super |-> super, Inherit |-> inherit, CreateRole |-> FALSE, CreateDB |-> FALSE,
     CanLogin |-> login, Replication |-> FALSE, ByPassRLS |-> FALSE, ConnLimit |-> limit]

OptionsSet == {MkOptions(s, i, l, c) : s \in BOOLEAN, i \in BOOLEAN, l \in BOOLEAN,
                                       c \in {0 - 1, 5}}

RoleNames == {"alice", "bob"}
DBNames == {"app", "postgres", "db1"}

MkRole(name, options) ==
    [Name |-> name, Comment |-> "Managed by ldap2pg", Parents |-> <<>>, Options |-> options]

NoRole == MkRole("", MkOptions(FALSE, FALSE, FALSE, 0))

(***************************************************************************)
(* Go strings.                                                             *)
(***************************************************************************)
CharAt(s, i) == SubSeq(s, i, i)

\* Characters in byte order, for the comparison of strings by slices.Sort.
Alphabet == " -0123456789ABCDEFGHIJKLMNOPQRSTUVWXYZ_abcdefghijklmnopqrstuvwxyz"

CharRank(c) == CHOOSE i \in 1..Len(Alphabet) : CharAt(Alphabet, i) = c

RECURSIVE StrLessFrom(_, _, _)
StrLessFrom(a, b, i) ==
    IF i > Len(b) THEN FALSE
    ELSE IF i > Len(a) THEN TRUE
    ELSE IF CharAt(a, i) = CharAt(b, i) THEN StrLessFrom(a, b, i + 1)
    ELSE CharRank(CharAt(a, i)) < CharRank(CharAt(b, i))

\* a < b on Go strings
StrLess(a, b) == StrLessFrom(a, b, 1)

RECURSIVE SortStrings(_)
SortStrings(S) ==
    IF S = {} THEN <<>>
    ELSE LET least == CHOOSE x \in S : \A y \in S : ~StrLess(y, x)
         IN <<least>> \o SortStrings(S \ {least})

HasPrefix(s, prefix) == Len(s) >= Len(prefix) /\ SubSeq(s, 1, Len(prefix)) = prefix

TrimPrefix(s, prefix) ==
    IF HasPrefix(s, prefix) THEN SubSeq(s, Len(prefix) + 1, Len(s)) ELSE s

\* strings.Split(s, " "), scanning s from position i with the token begun at from
RECURSIVE SplitFrom(_, _, _)
SplitFrom(s, from, i) ==
    IF i > Len(s) THEN <<SubSeq(s, from, Len(s))>>
    ELSE IF CharAt(s, i) = " " THEN <<SubSeq(s, from, i - 1)>> \o SplitFrom(s, i + 1, i + 1)
    ELSE SplitFrom(s, from, i + 1)

Split(s) == SplitFrom(s, 1, 1)

(***************************************************************************)
(* postgres.DBMap.SyncOrder.  m is the set of keys of the map.             *)
(***************************************************************************)
RECURSIVE AppendOthers(_, _, _)
AppendOthers(names, defaultName, i) ==
    IF i > Len(names) THEN <<>>
    ELSE (IF defaultName # names[i] THEN <<names[i]>> ELSE <<>>)
         \o AppendOthers(names, defaultName, i + 1)

\* Mutant: the default database is not filtered out of the sorted names.
MutSyncOrder(m, defaultName) == SortStrings(m) \o <<defaultName>>

SyncOrder(m, defaultName) ==
    LET names == SortStrings(m)
    IN AppendOthers(names, defaultName, 1) \o <<defaultName>>

(***************************************************************************)
(* Dynamically typed YAML values (interface{}): <<tag, payload>>.          *)
(*   "nil"      nil                                                        *)
(*   "string"   string                                                     *)
(*   "int"      int                                                        *)
(*   "bool"     bool                                                       *)
(*   "list"     []interface{}: a sequence of values                        *)
(*   "strings"  []string: a sequence of strings                            *)
(*   "map"      map[string]interface{}: a function from keys to values     *)
(***************************************************************************)
Nil == <<"nil", 0>>
Str(s) == <<"string", s>>
Num(n) == <<"int", n>>
Bool(b) == <<"bool", b>>
List(l) == <<"list", l>>
Strs(l) == <<"strings", l>>
Map(m) == <<"map", m>>
Tag(x) == x[1]
Val(x) == x[2]

EmptyMap == [k \in {} |-> Nil]

\* fmt's %T
GoType(x) ==
    CASE Tag(x) = "nil" -> "<nil>"
      [] Tag(x) = "string" -> "string"
      [] Tag(x) = "int" -> "int"
      [] Tag(x) = "bool" -> "bool"
      [] Tag(x) = "list" -> "[]interface {}"
      [] Tag(x) = "strings" -> "[]string"
      [] Tag(x) = "map" -> "map[string]interface {}"

RECURSIVE FormatV(_)
RECURSIVE FormatSeq(_, _)
RECURSIVE FormatMap(_, _, _)
FormatSeq(l, i) ==
    IF i > Len(l) THEN ""
    ELSE (IF i > 1 THEN " " ELSE "") \o FormatV(l[i]) \o FormatSeq(l, i + 1)
FormatMap(m, keys, i) ==
    IF i > Len(keys) THEN ""
    ELSE (IF i > 1 THEN " " ELSE "") \o keys[i] \o ":" \o FormatV(m[keys[i]])
         \o FormatMap(m, keys, i + 1)
\* fmt's %v
FormatV(x) ==
    CASE Tag(x) = "nil" -> "<nil>"
      [] Tag(x) = "string" -> Val(x)
      [] Tag(x) = "int" -> Itoa(Val(x))
      [] Tag(x) = "bool" -> (IF Val(x) THEN "true" ELSE "false")
      [] Tag(x) = "list" -> "[" \o FormatSeq(Val(x), 1) \o "]"
      [] Tag(x) = "strings" -> "[" \o FormatSeq([i \in 1..Len(Val(x)) |-> Str(Val(x)[i])], 1) \o "]"
      [] Tag(x) = "map" -> "map[" \o FormatMap(Val(x), SortStrings(DOMAIN Val(x)), 1) \o "]"

(***************************************************************************)
(* Errors.  kind "nil" is the nil error, "KeyConflict" is *KeyConflict,    *)
(* "error" any other error value, "panic" a run-time panic, which unwinds  *)
(* every caller (nothing in the package recovers).                         *)
(***************************************************************************)
NoErr == [kind |-> "nil", key |-> "", conflict |-> "", msg |-> ""]
Errorf(msg) == [kind |-> "error", key |-> "", conflict |-> "", msg |-> msg]
Panic(msg) == [kind |-> "panic", key |-> "", conflict |-> "", msg |-> msg]
KeyConflict(key, alias) ==
    [kind |-> "KeyConflict", key |-> key, conflict |-> alias,
     msg |-> "key conflict between " \o key \o " and " \o alias]

\* fmt.Errorf(prefix + ": %w", err)
Wrap(prefix, err) ==
    IF err.kind = "panic" THEN err ELSE [err EXCEPT !.msg = prefix \o ": " \o err.msg]

\* A (value, err) pair returned by a normalizer.
Ret(val, err) == [val |-> val, err |-> err]

\* maps.Copy(dst, src)
MapsCopy(dst, src) ==
    [k \in DOMAIN dst \cup DOMAIN src |-> IF k \in DOMAIN src THEN src[k] ELSE dst[k]]

MapSet(m, key, value) == [k \in DOMAIN m \cup {key} |-> IF k = key THEN value ELSE m[k]]

MapDelete(m, key) == [k \in DOMAIN m \ {key} |-> m[k]]

\* m[key] of a Go map: nil when the key is absent
MapGet(m, key) == IF key \in DOMAIN m THEN m[key] ELSE Nil

RECURSIVE JoinStrings(_, _)
JoinStrings(l, i) ==
    IF i > Len(l) THEN ""
    ELSE (IF i > 1 THEN ", " ELSE "") \o l[i] \o JoinStrings(l, i + 1)

\* CheckIsString: nil and strings pass.
CheckIsString(yaml) ==
    IF Tag(yaml) \in {"string", "nil"} THEN NoErr
    ELSE Errorf("bad value " \o FormatV(yaml) \o ", must be string")

\* CheckSpuriousKeys: every key of the map must be one of knownKeys.
CheckSpuriousKeys(m, knownKeys) ==
    IF DOMAIN m \subseteq knownKeys THEN NoErr
    ELSE Errorf("unknown keys " \o JoinStrings(SortStrings(DOMAIN m \ knownKeys), 1)
                \o ", must be one of " \o JoinStrings(SortStrings(knownKeys), 1))

RECURSIVE RemoveSpacesFrom(_, _)
RemoveSpacesFrom(s, i) ==
    IF i > Len(s) THEN ""
    ELSE (IF CharAt(s, i) = " " THEN "" ELSE CharAt(s, i)) \o RemoveSpacesFrom(s, i + 1)

\* ldap.CleanFilter: the filter-cleaning collaborator.
CleanFilter(filter) == RemoveSpacesFrom(filter, 1)

(***************************************************************************)
(* internal/config/normalizers.go                                          *)
(***************************************************************************)
\* Mutant: the alias is copied to the canonical key and not deleted.
MutNormalizeAlias(yaml, key, alias) ==
    IF alias \notin DOMAIN yaml THEN [yaml |-> yaml, err |-> NoErr]
    ELSE IF key \in DOMAIN yaml THEN [yaml |-> yaml, err |-> KeyConflict(key, alias)]
    ELSE [yaml |-> MapSet(yaml, key, yaml[alias]), err |-> NoErr]

\* yaml is the map NormalizeAlias works on in place; the result holds the map
\* as the call leaves it.
NormalizeAlias(yaml, key, alias) ==
    IF alias \notin DOMAIN yaml THEN [yaml |-> yaml, err |-> NoErr]
    ELSE IF key \in DOMAIN yaml THEN [yaml |-> yaml, err |-> KeyConflict(key, alias)]
    ELSE [yaml |-> MapSet(MapDelete(yaml, alias), key, yaml[alias]), err |-> NoErr]

NormalizeList(yaml) ==
    IF Tag(yaml) = "list" THEN yaml ELSE List(<<yaml>>)

NormalizeStringList(yaml) ==
    CASE Tag(yaml) = "nil" -> Ret(Strs(<<>>), NoErr)
      [] Tag(yaml) = "string" -> Ret(Strs(<<Val(yaml)>>), NoErr)
      [] Tag(yaml) = "list" ->
            IF \E i \in 1..Len(Val(yaml)) : Tag(Val(yaml)[i]) # "string"
            THEN Ret(Strs(<<>>), Errorf("must be string"))
            ELSE Ret(Strs([i \in 1..Len(Val(yaml)) |-> Val(Val(yaml)[i])]), NoErr)
      [] Tag(yaml) = "strings" -> Ret(yaml, NoErr)
      [] OTHER -> Ret(Strs(<<>>), Errorf("must be string or list of string, got "
                                          \o FormatV(yaml)))

DefaultConnLimit == 0 - 1

DefaultRoleOptions ==
    [k \in {"SUPERUSER", "INHERIT", "CREATEROLE", "CREATEDB", "LOGIN", "REPLICATION",
            "BYPASSRLS", "CONNECTION LIMIT"} |->
        IF k = "CONNECTION LIMIT" THEN Num(DefaultConnLimit) ELSE Bool(k = "INHERIT")]

RECURSIVE SetTokens(_, _, _)
SetTokens(value, tokens, i) ==
    IF i > Len(tokens) THEN value
    ELSE IF tokens[i] = "" THEN SetTokens(value, tokens, i + 1)
    ELSE SetTokens(MapSet(value, TrimPrefix(tokens[i], "NO"), Bool(~HasPrefix(tokens[i], "NO"))),
                   tokens, i + 1)

NormalizeRoleOptions(yaml) ==
    LET Checked(value) == Ret(Map(value), CheckSpuriousKeys(value, DOMAIN DefaultRoleOptions))
    IN CASE Tag(yaml) = "string" -> Checked(SetTokens(DefaultRoleOptions, Split(Val(yaml)), 1))
         [] Tag(yaml) = "map" -> Checked(MapsCopy(DefaultRoleOptions, Val(yaml)))
         [] Tag(yaml) = "nil" -> Ret(Map(DefaultRoleOptions), NoErr)
         [] OTHER -> Ret(Nil, Errorf("bad type: " \o GoType(yaml)))

DefaultRoleRule ==
    [k \in {"comment", "options", "parents"} |->
        CASE k = "comment" -> Str("Managed by ldap2pg")
          [] k = "options" -> Str("")
          [] k = "parents" -> Strs(<<>>)]

RoleRuleKeys == {"names", "comment", "parents", "options"}

\* The mapping case of NormalizeRoleRule once both aliases are resolved:
\* names, then parents, then options, then the spurious-key check.
NormalizeRoleRuleMap(yamlMap) ==
    LET Checked(rule) == Ret(Map(rule), CheckSpuriousKeys(rule, RoleRuleKeys))
        SetOptions(rule, options) ==
            IF options.err # NoErr THEN Ret(Nil, Wrap("options", options.err))
            ELSE Checked(MapSet(rule, "options", options.val))
        SetParents(rule, parents) ==
            IF parents.err # NoErr THEN Ret(Map(MapSet(rule, "parents", parents.val)), parents.err)
            ELSE SetOptions(MapSet(rule, "parents", parents.val),
                            NormalizeRoleOptions(rule["options"]))
        SetNames(rule, names) ==
            IF names.err # NoErr THEN Ret(Map(MapSet(rule, "names", names.val)), names.err)
            ELSE SetParents(MapSet(rule, "names", names.val),
                            NormalizeStringList(rule["parents"]))
        Merged(rule) ==
            IF "names" \notin DOMAIN rule THEN Ret(Nil, Errorf("missing name"))
            ELSE SetNames(rule, NormalizeStringList(rule["names"]))
    IN Merged(MapsCopy(DefaultRoleRule, yamlMap))

NormalizeRoleRule(yaml) ==
    LET Checked(rule) == Ret(Map(rule), CheckSpuriousKeys(rule, RoleRuleKeys))
        Parents(a2) ==
            IF a2.err # NoErr THEN Ret(Map(DefaultRoleRule), a2.err)
            ELSE NormalizeRoleRuleMap(a2.yaml)
        Names(a1) ==
            IF a1.err # NoErr THEN Ret(Map(DefaultRoleRule), a1.err)
            ELSE Parents(NormalizeAlias(a1.yaml, "parents", "parent"))
    IN CASE Tag(yaml) = "string" ->
              Checked(MapSet(DefaultRoleRule, "names", Strs(<<Val(yaml)>>)))
         [] Tag(yaml) = "map" -> Names(NormalizeAlias(Val(yaml), "names", "name"))
         [] OTHER -> Ret(Nil, Errorf("bad type: " \o GoType(yaml)))

\* Mutant: every copy keeps the whole names list.
MutDuplicateRoleRules(yaml) ==
    [i \in 1..Len(Val(yaml["names"])) |->
        Map(MapSet(yaml, "name", Str(Val(yaml["names"])[i])))]

\* yaml is a normalized role rule: its names are a []string.
DuplicateRoleRules(yaml) ==
    [i \in 1..Len(Val(yaml["names"])) |->
        Map(MapSet(MapDelete(yaml, "names"), "name", Str(Val(yaml["names"])[i])))]

DefaultLdapSearch ==
    [k \in {"filter", "scope"} |-> IF k = "filter" THEN Str("(objectClass=*)") ELSE Str("sub")]

NormalizeCommonLdapSearch(yaml) ==
    LET Cleaned(search) ==
            IF Tag(search["filter"]) # "string"
            THEN Ret(Nil, Panic("interface conversion: interface {} is "
                                \o GoType(search["filter"]) \o ", not string"))
            ELSE Ret(Map(MapSet(search, "filter", Str(CleanFilter(Val(search["filter"]))))),
                     NoErr)
    IN IF Tag(yaml) # "map" THEN Ret(Nil, Errorf("bad type: " \o GoType(yaml)))
       ELSE Cleaned(MapsCopy(DefaultLdapSearch, Val(yaml)))

\* The order in which "for attr := range subsearches" visits the keys is not
\* specified; rev selects ascending or descending key order.
RangeOrder(keys, rev) ==
    LET Reversed(asc) == [i \in 1..Len(asc) |-> asc[Len(asc) + 1 - i]]
    IN IF rev THEN Reversed(SortStrings(keys)) ELSE SortStrings(keys)

\* The loop over subsearches; the map is updated in place, so search sees
\* each normalized entry.
RECURSIVE NormalizeSubsearches(_, _, _)
NormalizeSubsearches(search, attrs, i) ==
    LET Checked(search1, err) ==
            IF err # NoErr THEN Ret(Map(search1), err)
            ELSE NormalizeSubsearches(search1, attrs, i + 1)
        Stored(sub) ==
            IF sub.err # NoErr THEN Ret(Map(search), sub.err)
            ELSE Checked(MapSet(search, "subsearches",
                                Map(MapSet(Val(search["subsearches"]), attrs[i], sub.val))),
                         CheckSpuriousKeys(Val(sub.val), {"filter", "scope"}))
    IN IF i > Len(attrs) THEN Ret(Map(search), NoErr)
       ELSE Stored(NormalizeCommonLdapSearch(Val(search["subsearches"])[attrs[i]]))

LdapSearchKeys == {"base", "filter", "scope", "subsearches", "on_unexpected_dn"}

NormalizeLdapSearch(yaml, rev) ==
    LET Checked(search, err) ==
            IF err # NoErr THEN Ret(Map(search), err)
            ELSE IF Tag(MapGet(search, "subsearches")) # "map" THEN Ret(Map(search), NoErr)
            ELSE NormalizeSubsearches(search,
                                      RangeOrder(DOMAIN Val(search["subsearches"]), rev), 1)
        Aliased(a) ==
            IF a.err # NoErr THEN Ret(Map(a.yaml), a.err)
            ELSE Checked(a.yaml, CheckSpuriousKeys(a.yaml, LdapSearchKeys))
        Common(common) ==
            IF common.err # NoErr THEN common
            ELSE Aliased(NormalizeAlias(Val(common.val), "subsearches", "joins"))
    IN Common(NormalizeCommonLdapSearch(yaml))

DefaultSyncItem ==
    [k \in {"description", "ldapsearch", "roles", "grants"} |->
        CASE k = "description" -> Str("")
          [] k = "ldapsearch" -> Map(EmptyMap)
          [] k = "roles" -> List(<<>>)
          [] k = "grants" -> List(<<>>)]

SyncItemKeys == {"description", "ldapsearch", "roles", "grants"}

\* The loop of NormalizeSyncItem over the role rules, rules being the
\* expanded rules collected so far.
RECURSIVE NormalizeRoleRules(_, _, _)
NormalizeRoleRules(list, i, rules) ==
    LET Expanded(rule) ==
            IF rule.err # NoErr
            THEN Ret(Nil, Wrap("roles[" \o Itoa(i - 1) \o "]", rule.err))
            ELSE NormalizeRoleRules(list, i + 1, rules \o DuplicateRoleRules(Val(rule.val)))
    IN IF i > Len(list) THEN Ret(List(rules), NoErr)
       ELSE Expanded(NormalizeRoleRule(list[i]))

NormalizeSyncItem(yaml, rev) ==
    LET Checked(item) == Ret(Map(item), CheckSpuriousKeys(item, SyncItemKeys))
        Roles(item, rules) ==
            IF rules.err # NoErr THEN Ret(Nil, rules.err)
            ELSE Checked(MapSet(item, "roles", rules.val))
        WithSearch(item) ==
            Roles(item, NormalizeRoleRules(Val(NormalizeList(item["roles"])), 1, <<>>))
        Search(item, search) ==
            IF search.err # NoErr THEN Ret(Nil, Wrap("ldapsearch", search.err))
            ELSE WithSearch(MapSet(item, "ldapsearch", search.val))
        Description(item, err) ==
            IF err # NoErr THEN Ret(Map(item), err)
            ELSE Search(item, NormalizeLdapSearch(item["ldapsearch"], rev))
        Merged(item) == Description(item, CheckIsString(item["description"]))
        Grants(a3) ==
            IF a3.err # NoErr THEN Ret(Map(DefaultSyncItem), a3.err)
            ELSE Merged(MapsCopy(DefaultSyncItem, a3.yaml))
        RolesAlias(a2) ==
            IF a2.err # NoErr THEN Ret(Map(DefaultSyncItem), a2.err)
            ELSE Grants(NormalizeAlias(a2.yaml, "grants", "grant"))
        LdapAlias(a1) ==
            IF a1.err # NoErr THEN Ret(Map(DefaultSyncItem), a1.err)
            ELSE RolesAlias(NormalizeAlias(a1.yaml, "roles", "role"))
    IN IF Tag(yaml) # "map"
       THEN Ret(Nil, Errorf("bad type: " \o GoType(yaml) \o ", must be a map"))
       ELSE LdapAlias(NormalizeAlias(Val(yaml), "ldapsearch", "ldap"))

RECURSIVE NormalizeSyncItems(_, _, _, _)
NormalizeSyncItems(rawItems, i, syncMap, rev) ==
    LET Appended(item) ==
            IF item.err # NoErr
            THEN Ret(List(syncMap), Wrap("item " \o Itoa(i - 1), item.err))
            ELSE NormalizeSyncItems(rawItems, i + 1, Append(syncMap, item.val), rev)
    IN IF i > Len(rawItems) THEN Ret(List(syncMap), NoErr)
       ELSE Appended(NormalizeSyncItem(rawItems[i], rev))

NormalizeSyncMap(yaml, rev) ==
    IF Tag(yaml) # "list"
    THEN Ret(Nil, Errorf("bad type: " \o GoType(yaml) \o ", must be a list"))
    ELSE NormalizeSyncItems(Val(yaml), 1, <<>>, rev)

NormalizePostgres(yaml) ==
    LET Owner(err) == IF err # NoErr THEN Wrap("fallback_owner", err) ELSE NoErr
    IN IF Tag(yaml) # "map" THEN Errorf("bad type: " \o GoType(yaml) \o ", must be a map")
       ELSE Owner(CheckIsString(MapGet(Val(yaml), "fallback_owner")))

NormalizeConfigRoot(yaml, rev) ==
    LET SyncMap(syncMap) ==
            IF syncMap.err # NoErr THEN Ret(yaml, Wrap("sync_map", syncMap.err))
            ELSE Ret(Map(MapSet(Val(yaml), "sync_map", syncMap.val)), NoErr)
        Postgres(err) ==
            IF err # NoErr THEN Ret(yaml, Wrap("postgres", err))
            ELSE IF "sync_map" \notin DOMAIN Val(yaml) THEN Ret(yaml, Errorf("missing sync_map"))
            ELSE SyncMap(NormalizeSyncMap(Val(yaml)["sync_map"], rev))
    IN IF Tag(yaml) # "map" THEN Ret(Nil, Errorf("bad type: " \o GoType(yaml)))
       ELSE Postgres(IF "postgres" \in DOMAIN Val(yaml)
                     THEN NormalizePostgres(Val(yaml)["postgres"]) ELSE NoErr)

(***************************************************************************)
(* Raw YAML documents handed to the normalizers.                           *)
(***************************************************************************)
One(key, value) == [k \in {key} |-> value]

\* The ways a canonical key and its alias can be given: neither, the key,
\* the alias, or both.
KeyOrAlias(key, alias, values, aliasValues) ==
    {EmptyMap} \cup {One(key, v) : v \in values} \cup {One(alias, v) : v \in aliasValues}
    \cup {MapsCopy(One(key, v), One(alias, v)) : v \in aliasValues}

Optional(key, values) == {EmptyMap} \cup {One(key, v) : v \in values}

NameOf(i) == "n" \o Itoa(i)

NameLists == {List([i \in 1..k |-> Str(NameOf(i))]) : k \in 0..MaxNames}

Scalars == {Nil, Str("alice"), Str(""), Num(1), Bool(TRUE)}

RawLists == {List(<<>>), List(<<Str("a")>>), List(<<Num(1)>>), List(<<Nil>>)}

OptionInputs ==
    {Str(OptionsString(o)) : o \in OptionsSet}
    \cup {Str("SUPERUSER"), Str("LOGIN NOINHERIT"), Str("NOSUPERUSER  LOGIN"), Str("FOO"),
          Str("NO"), Str("CONNECTION LIMIT 5"),
          Map(One("LOGIN", Bool(TRUE))), Map(One("CONNECTION LIMIT", Num(5))),
          Map(One("FOO", Bool(TRUE)))}

RuleMaps ==
    {Map(MapsCopy(MapsCopy(MapsCopy(MapsCopy(n, p), o), c), f)) :
        n \in KeyOrAlias("names", "name", NameLists \cup {Str("alice"), Nil, Num(1)},
                         {Str("alice"), List(<<Str("a"), Str("b")>>)}),
        p \in KeyOrAlias("parents", "parent", {Str("g"), Num(1)}, {List(<<Str("g")>>)}),
        o \in Optional("options", {Str("SUPERUSER"), Map(One("LOGIN", Bool(TRUE))), Num(1)}),
        c \in Optional("comment", {Str("x")}),
        f \in Optional("foo", {Nil})}

RuleInputs == RuleMaps \cup Scalars \cup RawLists

SubsearchMaps ==
    {One("member", Map(EmptyMap)),
     MapsCopy(One("member", Map(One("filter", Str("( cn = * )")))),
              One("manager", Map(One("scope", Str("base"))))),
     MapsCopy(One("member", Map(One("filter", Num(1)))), One("manager", Str("x"))),
     One("member", Map(One("base", Str("dc=acme")))),
     One("member", Map(One("filter", Nil)))}

LdapMaps ==
    {Map(EmptyMap), Map(One("filter", Str("( cn = * )"))), Map(One("filter", Num(1))),
     Map(One("filter", Nil)), Map(MapsCopy(One("scope", Num(1)), One("base", Str("dc=acme")))),
     Map(One("subsearches", Str("x"))), Map(One("foo", Nil))}
    \cup {Map(m) : m \in KeyOrAlias("subsearches", "joins", {Map(x) : x \in SubsearchMaps},
                                    {Map(One("member", Map(EmptyMap)))}) \ {EmptyMap}}

LdapInputs == LdapMaps \cup Scalars \cup RawLists

RoleValues ==
    {Nil, Str("alice"), Num(1), List(<<>>),
     Map(One("names", List(<<Str("a"), Str("b")>>))),
     List(<<Str("alice"), Map(MapsCopy(One("name", List(<<Str("a"), Str("b")>>)),
                                       One("options", Str("LOGIN"))))>>),
     List(<<Map(One("names", Nil)), Str("bob")>>)}

ItemMaps ==
    {Map(MapsCopy(MapsCopy(MapsCopy(MapsCopy(d, l), r), g), f)) :
        d \in Optional("description", {Str("d"), Num(1)}),
        l \in KeyOrAlias("ldapsearch", "ldap", LdapInputs \ RawLists, {Map(EmptyMap)}),
        r \in KeyOrAlias("roles", "role", RoleValues, {Str("bob")}),
        g \in KeyOrAlias("grants", "grant", {}, {List(<<>>)}),
        f \in Optional("foo", {Nil})}

ItemInputs == ItemMaps \cup Scalars \cup RawLists

\* Items a sync_map is built from.
RootItems ==
    {Map(EmptyMap), Str("x"),
     Map(MapsCopy(One("role", Map(One("names", List(<<Str("a"), Str("b")>>)))),
                  One("ldap", Map(One("joins", Map(One("member", Map(EmptyMap)))))))),
     Map(One("ldapsearch", Map(One("filter", Num(1))))),
     Map(One("roles", Nil)),
     Map(MapsCopy(One("roles", Str("a")), One("role", Str("b"))))}

SyncMapInputs == {List(l) : l \in SeqsUpTo(RootItems, MaxItems)} \cup Scalars

PostgresInputs ==
    {Map(EmptyMap), Map(One("fallback_owner", Str("postgres"))),
     Map(One("fallback_owner", Num(1))), Str("x"), Nil}

RootMaps ==
    {Map(MapsCopy(pg, sm)) : pg \in Optional("postgres", PostgresInputs),
                             sm \in Optional("sync_map", SyncMapInputs)}

RootInputs == RootMaps \cup Scalars \cup RawLists

AliasPairs == {<<"ldapsearch", "ldap">>, <<"roles", "role">>, <<"grants", "grant">>,
               <<"names", "name">>, <<"parents", "parent">>, <<"subsearches", "joins">>}

AliasInputs == RuleMaps \cup ItemMaps \cup LdapMaps

ListInputs == Scalars \cup RawLists \cup RoleValues

StringListInputs == Scalars \cup RawLists \cup NameLists \cup {Strs(<<"a", "b">>), Map(EmptyMap)}

AllInputs ==
    AliasInputs \cup ListInputs \cup StringListInputs \cup OptionInputs \cup RuleInputs
    \cup LdapInputs \cup ItemInputs \cup SyncMapInputs \cup PostgresInputs \cup RootInputs

(***************************************************************************)
(* postgres.SyncQuery values built by the Role methods.                    *)
(***************************************************************************)
SyncQuery(description, logArgs, database, query, queryArgs) ==
    [Description |-> description, LogArgs |-> logArgs, Database |-> database,
     Query |-> query, QueryArgs |-> queryArgs]

AlterQuery(r, w) ==
    SyncQuery("Alter options.",
              <<"role", r.Name, "current", r.Options, "wanted", w.Options>>,
              "",
              "ALTER ROLE " \o Sanitize(r.Name) \o " WITH " \o OptionsString(w.Options) \o ";",
              <<>>)

CreateQuery(r) ==
    SyncQuery("Create role.", <<"role", r.Name>>, "",
              "CREATE ROLE " \o Sanitize(r.Name) \o " " \o OptionsString(r.Options) \o ";",
              <<>>)

CommentQuery(r) ==
    SyncQuery("Set role comment.", <<"role", r.Name>>, "",
              "COMMENT ON ROLE " \o Sanitize(r.Name) \o " IS $1;",
              <<r.Comment>>)

TerminateQuery(r) ==
    SyncQuery("Terminate running sessions.", <<"role", r.Name>>, "",
              "SELECT pg_terminate_backend(pid) FROM pg_catalog.pg_stat_activity WHERE usename = $1;",
              <<r.Name>>)

ReassignQuery(r, database) ==
    SyncQuery("Reassign objects and purge ACL.",
              <<"role", r.Name, "database", database>>,
              database,
              "REASSIGN OWNED BY " \o Sanitize(r.Name) \o " TO CURRENT_USER; DROP OWNED BY "
                  \o Sanitize(r.Name) \o ";",
              <<>>)

DropRoleQuery(r) ==
    SyncQuery("Drop role.", <<"role", r.Name>>, "",
              "DROP ROLE " \o Sanitize(r.Name) \o ";", <<>>)

(***************************************************************************)
(* The channel.  "ch <- q" blocks until the buffer has room or, on an      *)
(* unbuffered channel, until the consumer receives.                        *)
(***************************************************************************)
CanSend == Len(ch) < capacity \/ (capacity = 0 /\ draining)

Send(q) ==
    /\ CanSend
    /\ sent' = Append(sent, q)
    /\ IF Len(ch) < capacity
       THEN ch' = Append(ch, q) /\ received' = received
       ELSE ch' = ch /\ received' = Append(received, q)

\* The execution collaborator takes the next statement from the channel.
Receive ==
    /\ draining
    /\ ch # <<>>
    /\ received' = Append(received, Head(ch))
    /\ ch' = Tail(ch)
    /\ UNCHANGED <<op, role, wanted, databases, pc, idx, capacity, sent, draining>>
    /\ UNCHANGED funVars

\* The execution collaborator stops draining the channel.
StopDraining ==
    /\ draining
    /\ draining' = FALSE
    /\ UNCHANGED <<op, role, wanted, databases, pc, idx, capacity, ch, sent, received>>
    /\ UNCHANGED funVars

(***************************************************************************)
(* Role.Alter, Role.Create, Role.Drop: one action per blocking send.       *)
(***************************************************************************)
\* Mutant: only the superuser attribute is compared.
MutAlter ==
    /\ op = "Alter" /\ pc = "start"
    /\ IF wanted.Options.Super # role.Options.Super
       THEN Send(AlterQuery(role, wanted))
       ELSE UNCHANGED <<ch, sent, received>>
    /\ pc' = "done"
    /\ UNCHANGED <<op, role, wanted, databases, idx, capacity, draining>>
    /\ UNCHANGED funVars

Alter ==
    /\ op = "Alter" /\ pc = "start"
    /\ IF wanted.Options # role.Options
       THEN Send(AlterQuery(role, wanted))
       ELSE UNCHANGED <<ch, sent, received>>
    /\ pc' = "done"
    /\ UNCHANGED <<op, role, wanted, databases, idx, capacity, draining>>
    /\ UNCHANGED funVars

CreateRole ==
    /\ op = "Create" /\ pc = "start"
    /\ Send(CreateQuery(role))
    /\ pc' = "comment"
    /\ UNCHANGED <<op, role, wanted, databases, idx, capacity, draining>>
    /\ UNCHANGED funVars

CreateComment ==
    /\ op = "Create" /\ pc = "comment"
    /\ Send(CommentQuery(role))
    /\ pc' = "done"
    /\ UNCHANGED <<op, role, wanted, databases, idx, capacity, draining>>
    /\ UNCHANGED funVars

DropTerminate ==
    /\ op = "Drop" /\ pc = "start"
    /\ Send(TerminateQuery(role))
    /\ pc' = "loop"
    /\ idx' = 1
    /\ UNCHANGED <<op, role, wanted, databases, capacity, draining>>
    /\ UNCHANGED funVars

\* Mutant: the loop always emits for the first database.
MutDropReassign ==
    /\ op = "Drop" /\ pc = "loop"
    /\ idx <= Len(databases)
    /\ Send(ReassignQuery(role, databases[1]))
    /\ idx' = idx + 1
    /\ UNCHANGED <<op, role, wanted, databases, pc, capacity, draining>>
    /\ UNCHANGED funVars

DropReassign ==
    /\ op = "Drop" /\ pc = "loop"
    /\ idx <= Len(databases)
    /\ Send(ReassignQuery(role, databases[idx]))
    /\ idx' = idx + 1
    /\ UNCHANGED <<op, role, wanted, databases, pc, capacity, draining>>
    /\ UNCHANGED funVars

\* Mutant: Drop returns after the loop without DROP ROLE.
MutDropRole ==
    /\ op = "Drop" /\ pc = "loop"
    /\ idx > Len(databases)
    /\ pc' = "done"
    /\ UNCHANGED <<op, role, wanted, databases, idx, capacity, draining, ch, sent, received>>
    /\ UNCHANGED funVars

DropRole ==
    /\ op = "Drop" /\ pc = "loop"
    /\ idx > Len(databases)
    /\ Send(DropRoleQuery(role))
    /\ pc' = "done"
    /\ UNCHANGED <<op, role, wanted, databases, idx, capacity, draining>>
    /\ UNCHANGED funVars

Producer == Alter \/ CreateRole \/ CreateComment \/ DropTerminate \/ DropReassign \/ DropRole

FunIdle == input = Nil /\ call = "" /\ output = <<>>

Init ==
    /\ op \in {"Alter", "Create", "Drop"}
    /\ role \in {MkRole(n, o) : n \in RoleNames, o \in OptionsSet}
    /\ wanted \in IF op = "Alter" THEN {MkRole(role.Name, o) : o \in OptionsSet} ELSE {NoRole}
    /\ databases \in IF op = "Drop" THEN SeqsUpTo(DBNames, MaxDatabases) ELSE {<<>>}
    /\ pc = "start"
    /\ idx = 0
    /\ capacity \in 0..MaxCapacity
    /\ ch = <<>>
    /\ sent = <<>>
    /\ received = <<>>
    /\ draining = TRUE
    /\ FunIdle

Next == Alter \/ CreateRole \/ CreateComment \/ DropTerminate \/ DropReassign \/ DropRole
        \/ Receive \/ StopDraining

Spec == Init /\ [][Next]_vars

\* The reconciler is idle while a pure function is exercised.
RecIdle ==
    /\ op = "" /\ role = NoRole /\ wanted = NoRole /\ databases = <<>>
    /\ pc = "idle" /\ idx = 0 /\ capacity = 0 /\ ch = <<>>
    /\ sent = <<>> /\ received = <<>> /\ draining = FALSE

OrderNames == {"app", "postgres", "db1", "App", "template1"}

InitOrder ==
    /\ RecIdle
    /\ input \in [m : SUBSET OrderNames, d : OrderNames]
    /\ call = ""
    /\ output = <<>>

CallSyncOrder ==
    /\ call = ""
    /\ call' = "SyncOrder"
    /\ output' = SyncOrder(input.m, input.d)
    /\ UNCHANGED input
    /\ UNCHANGED recVars

NextOrder == CallSyncOrder

SpecOrder == InitOrder /\ [][NextOrder]_vars

(***************************************************************************)
(* The normalizers applied to a raw document.  input is the argument as    *)
(* passed, output what the call returned.                                  *)
(***************************************************************************)
InitConfig ==
    /\ RecIdle
    /\ input \in AllInputs
    /\ call = ""
    /\ output = <<>>

CallNormalizeAlias ==
    /\ call = "" /\ input \in AliasInputs
    /\ \E pair \in AliasPairs :
          output' = [key |-> pair[1], alias |-> pair[2],
                     ret |-> NormalizeAlias(Val(input), pair[1], pair[2])]
    /\ call' = "NormalizeAlias"
    /\ UNCHANGED input /\ UNCHANGED recVars

CallNormalizeList ==
    /\ call = "" /\ input \in ListInputs
    /\ output' = NormalizeList(input)
    /\ call' = "NormalizeList"
    /\ UNCHANGED input /\ UNCHANGED recVars

CallNormalizeStringList ==
    /\ call = "" /\ input \in StringListInputs
    /\ output' = NormalizeStringList(input)
    /\ call' = "NormalizeStringList"
    /\ UNCHANGED input /\ UNCHANGED recVars

CallNormalizeRoleOptions ==
    /\ call = "" /\ input \in OptionInputs \cup Scalars \cup RawLists
    /\ output' = NormalizeRoleOptions(input)
    /\ call' = "NormalizeRoleOptions"
    /\ UNCHANGED input /\ UNCHANGED recVars

CallNormalizeRoleRule ==
    /\ call = "" /\ input \in RuleInputs
    /\ output' = NormalizeRoleRule(input)
    /\ call' = "NormalizeRoleRule"
    /\ UNCHANGED input /\ UNCHANGED recVars

\* NormalizeSyncItem hands each rule NormalizeRoleRule accepted to
\* DuplicateRoleRules.
CallDuplicateRoleRules ==
    /\ call = "NormalizeRoleRule" /\ output.err = NoErr
    /\ input' = output.val
    /\ output' = DuplicateRoleRules(Val(output.val))
    /\ call' = "DuplicateRoleRules"
    /\ UNCHANGED recVars

CallNormalizeCommonLdapSearch ==
    /\ call = "" /\ input \in LdapInputs
    /\ output' = NormalizeCommonLdapSearch(input)
    /\ call' = "NormalizeCommonLdapSearch"
    /\ UNCHANGED input /\ UNCHANGED recVars

CallNormalizeLdapSearch ==
    /\ call = "" /\ input \in LdapInputs
    /\ \E rev \in BOOLEAN : output' = NormalizeLdapSearch(input, rev)
    /\ call' = "NormalizeLdapSearch"
    /\ UNCHANGED input /\ UNCHANGED recVars

CallNormalizeSyncItem ==
    /\ call = "" /\ input \in ItemInputs
    /\ \E rev \in BOOLEAN : output' = NormalizeSyncItem(input, rev)
    /\ call' = "NormalizeSyncItem"
    /\ UNCHANGED input /\ UNCHANGED recVars

CallNormalizeSyncMap ==
    /\ call = "" /\ input \in SyncMapInputs
    /\ \E rev \in BOOLEAN : output' = NormalizeSyncMap(input, rev)
    /\ call' = "NormalizeSyncMap"
    /\ UNCHANGED input /\ UNCHANGED recVars

CallNormalizePostgres ==
    /\ call = "" /\ input \in PostgresInputs
    /\ output' = NormalizePostgres(input)
    /\ call' = "NormalizePostgres"
    /\ UNCHANGED input /\ UNCHANGED recVars

CallNormalizeConfigRoot ==
    /\ call = "" /\ input \in RootInputs
    /\ \E rev \in BOOLEAN : output' = NormalizeConfigRoot(input, rev)
    /\ call' = "NormalizeConfigRoot"
    /\ UNCHANGED input /\ UNCHANGED recVars

NextConfig ==
    \/ CallNormalizeAlias \/ CallNormalizeList \/ CallNormalizeStringList
    \/ CallNormalizeRoleOptions \/ CallNormalizeRoleRule \/ CallDuplicateRoleRules
    \/ CallNormalizeCommonLdapSearch \/ CallNormalizeLdapSearch \/ CallNormalizeSyncItem
    \/ CallNormalizeSyncMap \/ CallNormalizePostgres \/ CallNormalizeConfigRoot

SpecConfig == InitConfig /\ [][NextConfig]_vars

\* The producer goroutine and a receiving consumer are scheduled; nothing
\* obliges the consumer to keep draining.
FairSpec == Spec /\ WF_vars(Producer) /\ WF_vars(Receive)

(***************************************************************************)
(* Properties of the role reconciler.                                      *)
(***************************************************************************)
IsTerminate(q, r) ==
    /\ q.Description = "Terminate running sessions."
    /\ q.Database = ""
    /\ q.QueryArgs = <<r.Name>>

IsReassign(q, r, database) ==
    /\ q.Description = "Reassign objects and purge ACL."
    /\ q.Database = database
    /\ q.Query = "REASSIGN OWNED BY \"" \o r.Name \o "\" TO CURRENT_USER; DROP OWNED BY \""
                 \o r.Name \o "\";"

IsDropRole(q, r) ==
    /\ q.Database = ""
    /\ q.Query = "DROP ROLE \"" \o r.Name \o "\";"

IsCreateRole(q, r) ==
    /\ q.Database = ""
    /\ q.Query = "CREATE ROLE \"" \o r.Name \o "\" " \o OptionsString(r.Options) \o ";"

IsComment(q, r) ==
    /\ q.Database = ""
    /\ q.Query = "COMMENT ON ROLE \"" \o r.Name \o "\" IS $1;"
    /\ q.QueryArgs = <<r.Comment>>

\* The i-th statement of Drop(databases) is the one the drop order prescribes.
DropPosition(q, i) ==
    IF i = 1 THEN IsTerminate(q, role)
    ELSE IF i <= Len(databases) + 1 THEN IsReassign(q, role, databases[i - 1])
    ELSE IsDropRole(q, role)

\* C1: Role.Drop sends exactly |D|+2 statements: the terminate-sessions
\* statement first, then one reassign/drop-owned statement per element of D,
\* in the order of D and targeted at that database, then DROP ROLE last; the
\* consumer receives them in the order they were sent.
C1_DropOrder ==
    op = "Drop" =>
        /\ Len(sent) <= Len(databases) + 2
        /\ \A i \in 1..Len(sent) : DropPosition(sent[i], i)
        /\ (pc = "done" => Len(sent) = Len(databases) + 2)
        /\ received \o ch = sent

C1_Witness ==
    /\ op = "Drop" /\ pc = "done"
    /\ Len(databases) = 2 /\ databases[1] # databases[2]
    /\ received = sent /\ Len(received) = 4

\* Number of statements of the action the producer runs.
ActionLength == IF op = "Create" THEN 2 ELSE Len(databases) + 2

Started == op \in {"Create", "Drop"} /\ sent # <<>>
Finished == op \in {"Create", "Drop"} /\ Len(sent) = ActionLength

CreatePosition(q, i) == IF i = 1 THEN IsCreateRole(q, role) ELSE IsComment(q, role)

InOrder ==
    /\ op = "Create" => \A i \in 1..Len(sent) : i <= 2 /\ CreatePosition(sent[i], i)
    /\ op = "Drop" => \A i \in 1..Len(sent) : i <= Len(databases) + 2 /\ DropPosition(sent[i], i)

\* C3 as stated: once Create or Drop has sent its first statement it sends
\* all the remaining ones, whatever the consumer does.
C3_AlwaysCompletes == Started ~> Finished

\* C3 amended: the statements sent are always a prefix, in order, of the
\* role's action, and once the first is sent all the remaining ones are sent
\* unless the consumer stops draining the channel.
C3_CompletesWhileDrained == []InOrder /\ (Started ~> (Finished \/ ~draining))

C3_Witness ==
    /\ op = "Drop" /\ Len(databases) = 2 /\ draining
    /\ Finished /\ received = sent

\* C4: Alter sends exactly one ALTER ROLE statement, carrying the SQL-token
\* encoding of the wanted options, when the options differ in some field,
\* and no statement when they are field-wise equal.
C4_AlterIffDiffers ==
    op = "Alter" =>
        /\ Len(sent) <= 1
        /\ pc = "done" =>
            IF \E f \in OptionFields : wanted.Options[f] # role.Options[f]
            THEN /\ Len(sent) = 1
                 /\ sent[1].Query = "ALTER ROLE \"" \o role.Name \o "\" WITH "
                                    \o OptionsString(wanted.Options) \o ";"
            ELSE sent = <<>>
        /\ pc = "start" => sent = <<>>

C4_Witness ==
    /\ op = "Alter" /\ pc = "done" /\ Len(sent) = 1
    /\ wanted.Options.Super = role.Options.Super
    /\ wanted.Options.ConnLimit # role.Options.ConnLimit

(***************************************************************************)
(* Properties of the database sync order.                                  *)
(***************************************************************************)
IsAscending(seq) == \A i, j \in 1..Len(seq) : i < j => StrLess(seq[i], seq[j])

\* C2 as stated: SyncOrder(d) is a reordering of exactly the names of m,
\* the names other than d ascending, then d last.
C2_ReorderingOfKeys ==
    call = "SyncOrder" =>
        /\ Len(output) = Cardinality(input.m)
        /\ Range(output) = input.m
        /\ Len(output) > 0 => /\ output[Len(output)] = input.d
                              /\ IsAscending(SubSeq(output, 1, Len(output) - 1))

\* C2 amended: SyncOrder(d) is the names of m other than d, each once, in
\* ascending order, followed by d as the last element; it is a reordering of
\* exactly the names of m when d is a key of m, and holds d in addition to
\* them when d is not.
C2_OthersAscendingThenDefault ==
    call = "SyncOrder" =>
        LET n == Len(output)
            front == SubSeq(output, 1, n - 1)
        IN /\ n = Cardinality(input.m \ {input.d}) + 1
           /\ output[n] = input.d
           /\ Range(front) = input.m \ {input.d}
           /\ IsAscending(front)
           /\ input.d \in input.m => Range(output) = input.m /\ n = Cardinality(input.m)
           /\ input.d \notin input.m => Range(output) = input.m \cup {input.d}

C2_Witness ==
    /\ call = "SyncOrder"
    /\ input.m = {"postgres", "app", "App"} /\ input.d = "postgres"
    /\ output = <<"App", "app", "postgres">>

(***************************************************************************)
(* Properties of the normalizers.                                          *)
(***************************************************************************)
ItemPairs == {<<"ldapsearch", "ldap">>, <<"roles", "role">>, <<"grants", "grant">>}
RulePairs == {<<"names", "name">>, <<"parents", "parent">>}

Conflicting(m, pairs) == {pr \in pairs : pr[1] \in DOMAIN m /\ pr[2] \in DOMAIN m}

\* C5: for each alias pair and every mapping, NormalizeAlias fails with a
\* key conflict naming both keys and leaves the mapping unchanged when both
\* are present; moves the alias's value to the canonical key when only the
\* alias is present; and leaves the mapping unchanged when the alias is
\* absent.  A sync item or role rule holding both keys of one of its pairs
\* fails with a key conflict naming such a pair.
C5_AliasExclusive ==
    /\ call = "NormalizeAlias" =>
        LET m == Val(input)
            k == output.key
            a == output.alias
            r == output.ret
        IN /\ (k \in DOMAIN m /\ a \in DOMAIN m) =>
                 /\ r.err.kind = "KeyConflict" /\ r.err.key = k /\ r.err.conflict = a
                 /\ r.yaml = m
           /\ (k \notin DOMAIN m /\ a \in DOMAIN m) =>
                 /\ r.err = NoErr
                 /\ DOMAIN r.yaml = (DOMAIN m \ {a}) \cup {k}
                 /\ r.yaml[k] = m[a]
                 /\ \A other \in DOMAIN m \ {a} : r.yaml[other] = m[other]
           /\ a \notin DOMAIN m => r.err = NoErr /\ r.yaml = m
    /\ (call = "NormalizeSyncItem" /\ Tag(input) = "map"
        /\ Conflicting(Val(input), ItemPairs) # {}) =>
            /\ output.err.kind = "KeyConflict"
            /\ <<output.err.key, output.err.conflict>> \in Conflicting(Val(input), ItemPairs)
    /\ (call = "NormalizeRoleRule" /\ Tag(input) = "map"
        /\ Conflicting(Val(input), RulePairs) # {}) =>
            /\ output.err.kind = "KeyConflict"
            /\ <<output.err.key, output.err.conflict>> \in Conflicting(Val(input), RulePairs)

C5_Witness ==
    /\ call = "NormalizeAlias" /\ output.key = "roles"
    /\ "role" \in DOMAIN Val(input) /\ "roles" \notin DOMAIN Val(input)
    /\ "role" \notin DOMAIN output.ret.yaml
    /\ output.ret.yaml["roles"] = Str("bob")

\* C6: NormalizeList returns a list unchanged, wraps a non-null scalar into
\* a one-element list, and turns null into the empty list; a sync item whose
\* roles value is null normalizes to an item with an empty roles list.
C6_ListCoercion ==
    /\ call = "NormalizeList" =>
        /\ Tag(input) = "list" => output = input
        /\ Tag(input) \notin {"list", "nil"} => output = List(<<input>>)
        /\ Tag(input) = "nil" => output = List(<<>>)
    /\ (call = "NormalizeSyncItem" /\ input = Map(One("roles", Nil))) =>
        /\ output.err = NoErr
        /\ Val(output.val)["roles"] = List(<<>>)

\* The names a raw role rule gives, read off the raw document.
RawRuleNames(raw) ==
    IF Tag(raw) = "string" THEN <<Val(raw)>>
    ELSE LET v == IF "names" \in DOMAIN Val(raw) THEN Val(raw)["names"] ELSE Val(raw)["name"]
         IN CASE Tag(v) = "string" -> <<Val(v)>>
              [] Tag(v) = "list" -> [i \in 1..Len(Val(v)) |-> Val(Val(v)[i])]
              [] OTHER -> <<>>

\* The raw role rules of a sync item, read off the raw document.
RawRules(item) ==
    LET v == IF "roles" \in DOMAIN item THEN item["roles"]
             ELSE IF "role" \in DOMAIN item THEN item["role"] ELSE List(<<>>)
    IN IF Tag(v) = "list" THEN Val(v) ELSE <<v>>

RECURSIVE ConcatNames(_, _)
ConcatNames(rules, i) ==
    IF i > Len(rules) THEN <<>> ELSE RawRuleNames(rules[i]) \o ConcatNames(rules, i + 1)

\* C7: DuplicateRoleRules turns a normalized rule with N names into N rules,
\* in the order of the names, the i-th with the single name names[i], no
\* names key and every other field equal to the original's; the roles of a
\* normalized sync item are the expansions of its rules, in input order.
C7_NameExpansion ==
    /\ call = "DuplicateRoleRules" =>
        LET rule == Val(input)
            names == Val(rule["names"])
        IN /\ Len(output) = Len(names)
           /\ \A i \in 1..Len(output) :
                 /\ Tag(output[i]) = "map"
                 /\ DOMAIN Val(output[i]) = (DOMAIN rule \ {"names"}) \cup {"name"}
                 /\ Val(output[i])["name"] = Str(names[i])
                 /\ \A k \in DOMAIN rule \ {"names"} : Val(output[i])[k] = rule[k]
    /\ (call = "NormalizeSyncItem" /\ output.err = NoErr) =>
        LET roles == Val(Val(output.val)["roles"])
            names == ConcatNames(RawRules(Val(input)), 1)
        IN /\ Len(roles) = Len(names)
           /\ \A i \in 1..Len(roles) :
                 /\ "names" \notin DOMAIN Val(roles[i])
                 /\ Val(roles[i])["name"] = Str(names[i])

C7_Witness ==
    /\ call = "DuplicateRoleRules"
    /\ Len(output) = 3
    /\ Val(input)["comment"] = Str("x")
    /\ \A i \in 1..3 : /\ Val(output[i])["name"] = Str(NameOf(i))
                       /\ Val(output[i])["comment"] = Str("x")
                       /\ Val(Val(output[i])["options"])["SUPERUSER"] = Bool(TRUE)

\* C8: a bare string s is shorthand for {names: [s]}: both normalize to the
\* same rule, whose options are the canonical mapping of the defaults.
C8_BareStringShorthand ==
    (call = "NormalizeRoleRule" /\ Tag(input) = "string") =>
        /\ output = NormalizeRoleRule(Map(One("names", List(<<input>>))))
        /\ Val(output.val)["options"] = Map(DefaultRoleOptions)

FieldOfToken(k) == BoolTokens[CHOOSE i \in 1..Len(BoolTokens) : BoolTokens[i].tok = k].f

\* The canonical mapping of a RoleOptions value.
CanonicalOptions(o) ==
    [k \in {BoolTokens[i].tok : i \in 1..Len(BoolTokens)} \cup {"CONNECTION LIMIT"} |->
        IF k = "CONNECTION LIMIT" THEN Num(o.ConnLimit) ELSE Bool(o[FieldOfToken(k)])]

\* C9: encoding options as the SQL-token string and decoding the string
\* with NormalizeRoleOptions succeeds and gives back the options; a string
\* listing only some tokens leaves the other keys at their defaults.
C9_OptionsRoundTrip ==
    call = "NormalizeRoleOptions" =>
        /\ \A o \in OptionsSet :
              input = Str(OptionsString(o)) =>
                  output.err = NoErr /\ output.val = Map(CanonicalOptions(o))
        /\ input = Str("SUPERUSER") =>
              /\ output.err = NoErr
              /\ output.val = Map(MapSet(DefaultRoleOptions, "SUPERUSER", Bool(TRUE)))
        /\ input = Str("LOGIN NOINHERIT") =>
              /\ output.err = NoErr
              /\ output.val = Map(MapSet(MapSet(DefaultRoleOptions, "LOGIN", Bool(TRUE)),
                                         "INHERIT", Bool(FALSE)))

\* A normalized search: a mapping within its allowed keys, filter and scope
\* present.
IsCanonicalSearch(search, allowed) ==
    /\ Tag(search) = "map"
    /\ DOMAIN Val(search) \subseteq allowed
    /\ {"filter", "scope"} \subseteq DOMAIN Val(search)

IsCanonicalItem(item) ==
    /\ IsCanonicalSearch(Val(item)["ldapsearch"], LdapSearchKeys)
    /\ LET subsearches == MapGet(Val(Val(item)["ldapsearch"]), "subsearches")
       IN Tag(subsearches) = "map" =>
              \A attr \in DOMAIN Val(subsearches) :
                  IsCanonicalSearch(Val(subsearches)[attr], {"filter", "scope"})

\* C10: whatever the type found at any node, NormalizeConfigRoot returns a
\* canonical document or an error value and never aborts; when it returns
\* no error every ldapsearch and every subsearches entry is a mapping within
\* its allowed keys holding filter and scope.
C10_TotalWithErrorValues ==
    call = "NormalizeConfigRoot" =>
        /\ output.err.kind \in {"nil", "error", "KeyConflict"}
        /\ output.err = NoErr =>
              /\ Tag(output.val) = "map"
              /\ \A i \in 1..Len(Val(Val(output.val)["sync_map"])) :
                    IsCanonicalItem(Val(Val(output.val)["sync_map"])[i])

=============================================================================
